---- MODULE Spec2Model ----
(***************************************************************************)
(* State-machine model of the tovaras desktop pet (src/src/main.rs): the   *)
(* animation clock, the visual table, the motion/physics step and the two  *)
(* scenario drivers, as scheduled once per frame by the engine.            *)
(*                                                                         *)
(* Conventions                                                             *)
(*  - Time is counted in units of 1/U second (U = 840), so that every      *)
(*    1/fps of the sheet and every duration constant is a whole number.    *)
(*  - f32 values are modelled by exact rationals over a fixed denominator: *)
(*    vy in 1/VYQ px/s, vx in 1/VXQ px/s; `as i32` is truncation toward    *)
(*    zero (Trunc).  f32 rounding error is not modelled.                   *)
(*  - dir is +1 or -1.  wall_target is <<>> (None) or <<wall, y>> (Some).  *)
(*  - The window size (fw, fh) and the monitor size are fixed for a run    *)
(*    (the sheet is loaded; window creation and asset loading are the      *)
(*    host framework's business).                                          *)
(***************************************************************************)
EXTENDS Integers, Sequences, FiniteSets, TLC

\* ------------------------------------------------------------------ units
U == 2 * 2 * 2 * 3 * 5 * 7      \* time units per second (840)
VYQ == 1 + 6                    \* vy is stored as VYQ * (px/s)
VXQ == 2 * 5                    \* vx is stored as VXQ * (px/s)
SQ == 2 * 5                     \* fixed-point scale of the square root in the takeoff solver

\* ------------------------------------------------------- model bounds
\* Frame rates a run may have, in frames per second: the slowest (the
\* engine caps a frame's delta at 250 ms) and the fastest one checked.
SlowFps == 4
FastFps == 20
\* A display refresh rate above 90 Hz, used where single motion steps are examined.
HighFps == 120
\* Runs of plain on-surface steps are followed for at most this many seconds.
RunSeconds == 2
\* The generator's f32() draw is one of 0/RngDen, 1/RngDen, ..., RngDen/RngDen.
RngDen == 2

\* ------------------------------------------------------- program constants
SHEET_COLS == 27
SHEET_ROWS == 9
ROW_FRAMES == <<13, 5, 17, 27, 1, 9, 1, 8, 8>>
ROW_IDLE1 == 0
ROW_WALK_R == 1
ROW_GIVING_FLOWERS == 3
ROW_JUMP_R == 4
ROW_LAND_R == 5
ROW_SLEEP == 6
ROW_HIDE == 7
ROW_CLIMB_R == 8

FPS_IDLE == 10
FPS_MOVE == 14
FPS_CLIMB == 12
FPS_HIDE == 10
FPS_SLEEP == 8
FPS_GIVING_FLOWERS == 6
FPS_JUMP == 1
FPS_LAND == 20

SPEED_FLOOR == 90
SPEED_WALL == 70
SPEED_CEIL == 90

GRAVITY == 1800
FLOOR_JUMP_VY0 == -900
WALL_JUMP_VY0 == -880

CASE_DUR == (3 * U) \div 2
START_MARGIN == 40
DUR_GIVING_FLOWERS == (ROW_FRAMES[ROW_GIVING_FLOWERS + 1] * U) \div FPS_GIVING_FLOWERS + U \div 2
LANDING_HOLD == U \div 2
LANDING_DRIFT == 100

Surfaces == {"Floor", "RightWall", "Ceiling", "LeftWall"}
Actions == {"Idle", "Move", "Climb", "Jumping", "Landing", "Sleeping", "Hiding", "GivingFlowers"}

\* ------------------------------------------------------------ arithmetic
Max(a, b) == IF a >= b THEN a ELSE b
Min(a, b) == IF a <= b THEN a ELSE b

\* i32::clamp
Clamp(v, lo, hi) == IF v < lo THEN lo ELSE IF v > hi THEN hi ELSE v

\* (n / d) as i32 : truncation toward zero, d > 0
Trunc(n, d) == IF n >= 0 THEN n \div d ELSE -((-n) \div d)

\* f32::round of n / d for n >= 0 : half away from zero
Round(n, d) == (2 * n + d) \div (2 * d)

RECURSIVE SqrtSearch(_, _, _)
SqrtSearch(n, lo, hi) ==
    IF lo >= hi THEN lo
    ELSE LET mid == (lo + hi + 1) \div 2
         IN  IF mid * mid <= n THEN SqrtSearch(n, mid, hi) ELSE SqrtSearch(n, lo, mid - 1)

\* floor of the square root of n, 0 <= n < 2^30
ISqrt(n) == SqrtSearch(n, 0, 32767)

\* --------------------------------------------------------- sheet layout
row_col_to_index(row, col) == row * SHEET_COLS + col
\* row_start counting the sheet's rows from one
row_start_one_based(row) == (row + 1) * SHEET_COLS
row_start(row) == row * SHEET_COLS

\* 1.0 / fps.max(1.0), in time units
Spf(fps) == U \div Max(fps, 1)

\* The entity's rendering components: Anim (start_index, len, the timer's
\* duration and elapsed time), TextureAtlas.index and the Transform
\* (rotation in quarter turns, sign flips of the scale).
AnimNew(start_index, len, fps) ==
    [start_index |-> start_index, len |-> len, dur |-> Spf(fps), elapsed |-> 0,
     index |-> row_col_to_index(ROW_IDLE1, 0), rot |-> 0, flip_x |-> FALSE, flip_y |-> FALSE]

\* set_anim_if_changed, with its snap of the atlas index (line 601) dropped
SetAnimNoSnap(sp, row, fps) ==
    LET start == row_start(row)
        len == ROW_FRAMES[row + 1]
        spf == Spf(fps)
    IN  IF sp.start_index # start \/ sp.len # len \/ sp.dur # spf
        THEN [sp EXCEPT !.start_index = start, !.len = len, !.dur = spf, !.elapsed = 0]
        ELSE sp

\* set_anim_if_changed without its needs_change test: every call restarts the row
SetAnimAlways(sp, row, fps) ==
    [sp EXCEPT !.start_index = row_start(row), !.len = ROW_FRAMES[row + 1],
               !.dur = Spf(fps), !.elapsed = 0, !.index = row_start(row)]

set_anim_if_changed(sp, row, fps) ==
    LET start == row_start(row)
        len == ROW_FRAMES[row + 1]
        spf == Spf(fps)
        needs_change == sp.start_index # start \/ sp.len # len \/ sp.dur # spf
    IN  IF needs_change
        THEN [sp EXCEPT !.start_index = start, !.len = len, !.dur = spf,
                        !.elapsed = 0, !.index = start]
        ELSE sp

\* animate_sprite stepping past the last frame of the row instead of wrapping
animate_sprite_no_wrap(sp, delta) ==
    LET e == sp.elapsed + delta
        just_finished == e >= sp.dur
        ticked == [sp EXCEPT !.elapsed = IF just_finished THEN e % sp.dur ELSE e]
    IN  IF just_finished /\ sp.len > 0
        THEN [ticked EXCEPT !.index = Max(sp.index, sp.start_index) + 1]
        ELSE ticked

\* animate_sprite: the repeating timer ticks by delta; when it has just
\* finished (at least once in this tick) the frame advances by one.
animate_sprite(sp, delta) ==
    LET e == sp.elapsed + delta
        just_finished == e >= sp.dur
        ticked == [sp EXCEPT !.elapsed = IF just_finished THEN e % sp.dur ELSE e]
    IN  IF just_finished /\ sp.len > 0
        THEN LET idx == IF sp.index < sp.start_index \/ sp.index >= sp.start_index + sp.len
                        THEN sp.start_index ELSE sp.index
                 local == Max(idx - sp.start_index, 0)
                 next_local == IF local >= Max(sp.len - 1, 0) THEN 0 ELSE local + 1
             IN  [ticked EXCEPT !.index = sp.start_index + next_local]
        ELSE ticked

\* The visual table of set_visual_for: (row, fps, rot, flip_x, flip_y).
VisualFor(surface, action, dir) ==
    LET V(row, fps, rot, fx, fy) ==
            [row |-> row, fps |-> fps, rot |-> rot, flip_x |-> fx, flip_y |-> fy]
    IN  CASE surface = "Floor" /\ action = "Move" -> V(ROW_WALK_R, FPS_MOVE, 0, dir < 0, FALSE)
          [] surface = "Floor" /\ action = "Idle" -> V(ROW_IDLE1, FPS_IDLE, 0, FALSE, FALSE)
          [] surface = "Floor" /\ action = "Sleeping" -> V(ROW_SLEEP, FPS_SLEEP, 0, FALSE, FALSE)
          [] surface = "Floor" /\ action = "GivingFlowers" ->
                V(ROW_GIVING_FLOWERS, FPS_GIVING_FLOWERS, 0, FALSE, FALSE)
          [] surface = "Floor" /\ action = "Hiding" -> V(ROW_HIDE, FPS_HIDE, 0, FALSE, TRUE)
          [] surface = "Floor" /\ action = "Jumping" -> V(ROW_JUMP_R, FPS_JUMP, 0, dir < 0, FALSE)
          [] surface = "Floor" /\ action = "Landing" -> V(ROW_LAND_R, FPS_LAND, 0, dir < 0, FALSE)
          [] surface = "RightWall" /\ action = "Climb" -> V(ROW_CLIMB_R, FPS_CLIMB, 0, FALSE, dir < 0)
          [] surface = "RightWall" /\ action = "Hiding" -> V(ROW_HIDE, FPS_HIDE, -1, FALSE, FALSE)
          [] surface = "RightWall" /\ action = "Jumping" -> V(ROW_JUMP_R, FPS_JUMP, 0, TRUE, FALSE)
          [] surface = "Ceiling" /\ action = "Climb" -> V(ROW_CLIMB_R, FPS_CLIMB, 1, dir > 0, FALSE)
          [] surface = "Ceiling" /\ action = "Hiding" -> V(ROW_HIDE, FPS_HIDE, 0, FALSE, FALSE)
          [] surface = "LeftWall" /\ action = "Climb" -> V(ROW_CLIMB_R, FPS_CLIMB, 2, FALSE, dir > 0)
          [] surface = "LeftWall" /\ action = "Hiding" -> V(ROW_HIDE, FPS_HIDE, 1, FALSE, FALSE)
          [] surface = "LeftWall" /\ action = "Jumping" -> V(ROW_JUMP_R, FPS_JUMP, 0, FALSE, FALSE)
          [] OTHER -> V(ROW_IDLE1, FPS_IDLE, 0, FALSE, FALSE)

\* set_visual_for that sets the row but leaves the Transform alone
set_visual_for_row_only(surface, action, dir, sp) ==
    set_anim_if_changed(sp, VisualFor(surface, action, dir).row, VisualFor(surface, action, dir).fps)

set_visual_for(surface, action, dir, sp) ==
    LET v == VisualFor(surface, action, dir)
    IN  [set_anim_if_changed(sp, v.row, v.fps) EXCEPT
            !.rot = v.rot, !.flip_x = v.flip_x, !.flip_y = v.flip_y]

\* ------------------------------------------------------ pet state
\* PetState as spawned by spawn_pet; window_pos is (x, y).
SpawnState ==
    [surface |-> "Floor", action |-> "Move", dir |-> 1, x |-> 20, y |-> 20,
     flight |-> "None", flight_from |-> "Floor", vx |-> 0, vy |-> 0,
     landing_left |-> 0, target_x |-> 0, wall_target |-> <<>>]

SpawnAnim == AnimNew(row_start(ROW_IDLE1), ROW_FRAMES[ROW_IDLE1 + 1], FPS_IDLE)

\* The motion step's virtual desktop rectangle (lines 708-718).
ScreenW(fw) == Max(1920, fw + 2 * START_MARGIN)
ScreenH(fh) == Max(1080, fh + 2 * START_MARGIN)
MotionMaxX(g) == Max(ScreenW(g.fw) - g.fw, 0)
MotionMaxY(g) == Max(ScreenH(g.fh) - g.fh, 0)

\* vx = dx / t, where t is the positive root of 0.5*G*t^2 + b*t + c = 0
\* (1.0 when the discriminant is negative); VXQ-scaled.  c is in px.
SolveVx(dx, b, c) ==
    LET disc == b * b - 2 * GRAVITY * c
    IN  IF disc >= 0
        THEN Trunc(dx * GRAVITY * VXQ * SQ, (-b) * SQ + ISqrt(disc * SQ * SQ))
        ELSE dx * VXQ

\* floor -> floor: t = 2 * (-FLOOR_JUMP_VY0) / GRAVITY, vx = dx / t
FloorVx(dx) == Trunc(dx * VXQ * GRAVITY, 2 * (-FLOOR_JUMP_VY0))

\* ENTER FLIGHT without the ceiling test: a ceiling jump takes off like a wall jump
EnterFlightAnySurface(s, sp, max_x, max_y) ==
    IF s.action = "Jumping" /\ s.flight = "None"
    THEN [st |-> [s EXCEPT !.flight_from = s.surface,
                           !.vx = IF s.surface = "Floor"
                                  THEN FloorVx(s.target_x - s.x)
                                  ELSE SolveVx(s.target_x - s.x, WALL_JUMP_VY0, s.y - max_y),
                           !.vy = (IF s.surface = "Floor" THEN FLOOR_JUMP_VY0 ELSE WALL_JUMP_VY0) * VYQ,
                           !.wall_target = <<>>,
                           !.flight = "Parabola", !.landing_left = 0],
          sp |-> set_visual_for(s.surface, "Jumping", s.dir, sp),
          ev |-> {"takeoff"}]
    ELSE [st |-> s, sp |-> sp, ev |-> {}]

\* ENTER FLIGHT with every surface treated like the ceiling: no takeoff
EnterFlightDisabled(s, sp, max_x, max_y) ==
    IF s.action = "Jumping" /\ s.flight = "None"
    THEN [st |-> s, sp |-> set_visual_for(s.surface, s.action, s.dir, sp), ev |-> {}]
    ELSE [st |-> s, sp |-> sp, ev |-> {}]

\* ENTER FLIGHT on Jumping (lines 721-795).
EnterFlight(s, sp, max_x, max_y) ==
    IF s.action = "Jumping" /\ s.flight = "None"
    THEN IF s.surface = "Ceiling"
         THEN [st |-> s, sp |-> set_visual_for(s.surface, s.action, s.dir, sp), ev |-> {}]
         ELSE LET sp1 == set_visual_for(s.surface, "Jumping", s.dir, sp)
                  s1 == [s EXCEPT !.flight_from = s.surface]
                  s2 == IF s.surface = "Floor"
                        THEN IF s.wall_target # <<>>
                             THEN LET wall == s.wall_target[1]
                                      ty == s.wall_target[2]
                                      wall_x == IF wall = "LeftWall" THEN 0 ELSE max_x
                                  IN  [s1 EXCEPT !.wall_target = <<>>,
                                          !.vx = SolveVx(wall_x - s.x, FLOOR_JUMP_VY0, max_y - ty),
                                          !.vy = FLOOR_JUMP_VY0 * VYQ]
                             ELSE [s1 EXCEPT !.vx = FloorVx(s.target_x - s.x),
                                             !.vy = FLOOR_JUMP_VY0 * VYQ]
                        ELSE [s1 EXCEPT !.vx = SolveVx(s.target_x - s.x, WALL_JUMP_VY0, s.y - max_y),
                                        !.vy = WALL_JUMP_VY0 * VYQ]
              IN  [st |-> [s2 EXCEPT !.flight = "Parabola", !.landing_left = 0],
                   sp |-> sp1, ev |-> {"takeoff"}]
    ELSE [st |-> s, sp |-> sp, ev |-> {}]

\* Heading on a floor landing (lines 854-864), with the wall rules swapped
LandingDirSwapped(flight_from, vx) ==
    CASE flight_from = "RightWall" -> 1
      [] flight_from = "LeftWall" -> -1
      [] OTHER -> IF vx >= 0 THEN 1 ELSE -1

\* Heading on a floor landing (lines 854-864).
LandingDir(flight_from, vx) ==
    CASE flight_from = "RightWall" -> -1
      [] flight_from = "LeftWall" -> 1
      [] OTHER -> IF vx >= 0 THEN 1 ELSE -1

\* The landing x without the snap to the floor target
LandingXKeep(x, target_x, max_x) == x

\* Snap X to the floor target (line 867).
LandingX(x, target_x, max_x) == Clamp(target_x, 0, max_x)

\* The flight step without gravity and without the wall capture
FlightStepNoGravity(s, sp, dt, max_x, max_y) ==
    LET s1 == [s EXCEPT !.x = Clamp(Trunc(s.x * VXQ * U + s.vx * dt, VXQ * U), 0, max_x),
                        !.y = Clamp(Trunc(s.y * VYQ * U + s.vy * dt, VYQ * U), 0, max_y)]
        sp1 == set_visual_for(s.flight_from, "Jumping", s.dir, sp)
    IN  IF s1.y >= max_y
        THEN [st |-> [s1 EXCEPT !.flight = "None", !.surface = "Floor", !.action = "Landing",
                                !.dir = LandingDir(s1.flight_from, s1.vx),
                                !.x = LandingX(s1.x, s1.target_x, max_x),
                                !.landing_left = LANDING_HOLD, !.wall_target = <<>>],
              sp |-> set_visual_for("Floor", "Landing", LandingDir(s1.flight_from, s1.vx), sp1),
              ev |-> {"floor_landing"}]
        ELSE [st |-> s1, sp |-> sp1, ev |-> {}]

\* The flight step moving the position with the velocity it had before the
\* gravity of this step, and without the wall capture
FlightStepOldVy(s, sp, dt, max_x, max_y) ==
    LET s1 == [s EXCEPT !.vy = s.vy + (VYQ * GRAVITY * dt) \div U,
                        !.x = Clamp(Trunc(s.x * VXQ * U + s.vx * dt, VXQ * U), 0, max_x),
                        !.y = Clamp(Trunc(s.y * VYQ * U + s.vy * dt, VYQ * U), 0, max_y)]
        sp1 == set_visual_for(s.flight_from, "Jumping", s.dir, sp)
    IN  IF s1.y >= max_y
        THEN [st |-> [s1 EXCEPT !.flight = "None", !.surface = "Floor", !.action = "Landing",
                                !.dir = LandingDir(s1.flight_from, s1.vx),
                                !.x = LandingX(s1.x, s1.target_x, max_x),
                                !.landing_left = LANDING_HOLD, !.wall_target = <<>>],
              sp |-> set_visual_for("Floor", "Landing", LandingDir(s1.flight_from, s1.vx), sp1),
              ev |-> {"floor_landing"}]
        ELSE [st |-> s1, sp |-> sp1, ev |-> {}]

\* Flight step (lines 797-879): gravity, integration, clamp, jump visuals,
\* wall capture, floor landing.
FlightStep(s, sp, dt, max_x, max_y) ==
    LET vy1 == s.vy + (VYQ * GRAVITY * dt) \div U
        x1 == Clamp(Trunc(s.x * VXQ * U + s.vx * dt, VXQ * U), 0, max_x)
        y1 == Clamp(Trunc(s.y * VYQ * U + vy1 * dt, VYQ * U), 0, max_y)
        sp1 == set_visual_for(s.flight_from, "Jumping", s.dir, sp)
        s1 == [s EXCEPT !.vy = vy1, !.x = x1, !.y = y1]
        wt == s.wall_target
        hit == /\ wt # <<>>
               /\ \/ wt[1] = "LeftWall" /\ x1 <= 0
                  \/ wt[1] = "RightWall" /\ x1 >= max_x
        s2 == IF hit
              THEN [s1 EXCEPT !.x = IF wt[1] = "LeftWall" THEN 0 ELSE max_x,
                              !.y = Clamp(wt[2], 0, max_y),
                              !.flight = "None",
                              !.surface = wt[1],
                              !.action = "Climb",
                              !.dir = IF vy1 <= 0 THEN 1 ELSE -1,
                              !.wall_target = <<>>]
              ELSE s1
    IN  IF s2.flight # "None" /\ s2.y >= max_y
        THEN LET d == LandingDir(s2.flight_from, s2.vx)
             IN  [st |-> [s2 EXCEPT !.flight = "None", !.surface = "Floor",
                                    !.action = "Landing", !.dir = d,
                                    !.x = LandingX(s2.x, s2.target_x, max_x),
                                    !.landing_left = LANDING_HOLD,
                                    !.wall_target = <<>>],
                  sp |-> set_visual_for("Floor", "Landing", d, sp1),
                  ev |-> {"floor_landing"}]
        ELSE [st |-> s2, sp |-> sp1, ev |-> IF hit THEN {"wall_landing"} ELSE {}]

\* The surface step reduced to a walk along x at the floor speed, whatever
\* the surface and the action
SurfaceStepDrift(s, sp, dt, max_x, max_y) ==
    [st |-> [s EXCEPT !.x = Trunc(s.x * U + SPEED_FLOOR * s.dir * dt, U)],
     sp |-> set_visual_for(s.surface, s.action, s.dir, sp),
     ev |-> {}]

\* Not in flight (lines 880-991): visuals, then motion along the surface
\* with the corner hand-offs.
SurfaceStep(s, sp, dt, max_x, max_y) ==
    LET sp1 == set_visual_for(s.surface, s.action, s.dir, sp)
        R(s2, e) == [st |-> s2, sp |-> sp1, ev |-> e]
    IN  CASE s.surface = "Floor" ->
               IF s.action = "Move"
               THEN LET x1 == Trunc(s.x * U + SPEED_FLOOR * s.dir * dt, U)
                    IN  IF x1 <= 0
                        THEN R([s EXCEPT !.x = 0, !.y = max_y, !.surface = "LeftWall",
                                         !.action = "Climb", !.dir = 1], {"handoff"})
                        ELSE IF x1 >= max_x
                        THEN R([s EXCEPT !.x = max_x, !.y = max_y, !.surface = "RightWall",
                                         !.action = "Climb", !.dir = 1], {"handoff"})
                        ELSE R([s EXCEPT !.x = x1, !.y = max_y], {})
               ELSE IF s.action = "Landing"
               THEN R([s EXCEPT !.x = Trunc(s.x * U + LANDING_DRIFT * s.dir * dt, U),
                                !.y = max_y], {})
               ELSE R([s EXCEPT !.y = max_y], {})
          [] s.surface = "RightWall" ->
               IF s.action = "Climb"
               THEN LET y1 == Trunc(s.y * U - SPEED_WALL * s.dir * dt, U)
                    IN  IF y1 <= 0 /\ s.dir > 0
                        THEN R([s EXCEPT !.x = max_x, !.y = 0, !.surface = "Ceiling",
                                         !.action = "Climb", !.dir = -1], {"handoff"})
                        ELSE IF y1 >= max_y /\ s.dir < 0
                        THEN R([s EXCEPT !.x = max_x, !.y = max_y, !.surface = "Floor",
                                         !.action = "Move", !.dir = -1], {"handoff"})
                        ELSE R([s EXCEPT !.x = max_x, !.y = Clamp(y1, 0, max_y)], {})
               ELSE R([s EXCEPT !.x = max_x, !.y = Clamp(s.y, 0, max_y)], {})
          [] s.surface = "Ceiling" ->
               IF s.action = "Climb"
               THEN LET x1 == Trunc(s.x * U + SPEED_CEIL * s.dir * dt, U)
                    IN  IF x1 <= 0 /\ s.dir < 0
                        THEN R([s EXCEPT !.x = 0, !.y = 0, !.surface = "LeftWall",
                                         !.action = "Climb", !.dir = -1], {"handoff"})
                        ELSE IF x1 >= max_x /\ s.dir > 0
                        THEN R([s EXCEPT !.x = max_x, !.y = 0, !.surface = "RightWall",
                                         !.action = "Climb", !.dir = -1], {"handoff"})
                        ELSE R([s EXCEPT !.x = Clamp(x1, 0, max_x), !.y = 0], {})
               ELSE R([s EXCEPT !.x = Clamp(s.x, 0, max_x), !.y = 0], {})
          [] s.surface = "LeftWall" ->
               IF s.action = "Climb"
               THEN LET y1 == Trunc(s.y * U - SPEED_WALL * s.dir * dt, U)
                    IN  IF y1 <= 0 /\ s.dir > 0
                        THEN R([s EXCEPT !.x = 0, !.y = 0, !.surface = "Ceiling",
                                         !.action = "Climb", !.dir = 1], {"handoff"})
                        ELSE IF y1 >= max_y /\ s.dir < 0
                        THEN R([s EXCEPT !.x = 0, !.y = max_y, !.surface = "Floor",
                                         !.action = "Move", !.dir = 1], {"handoff"})
                        ELSE R([s EXCEPT !.x = 0, !.y = Clamp(y1, 0, max_y)], {})
               ELSE R([s EXCEPT !.x = 0, !.y = Clamp(s.y, 0, max_y)], {})

\* The hold timer's expiry test, firing at half the hold
HoldExpiredEarly(landing_left) == landing_left <= LANDING_HOLD \div 2

\* The hold timer's expiry test never firing
HoldExpiredNever(landing_left) == FALSE

\* The hold timer's expiry test (line 996).
HoldExpired(landing_left) == landing_left <= 0

\* The stored position without the final clamp
StoredPosUnclamped(x, y, max_x, max_y) == <<x, y>>

\* st.window_pos = (pos.x.clamp(0, max_x), pos.y.clamp(0, max_y)) (line 1001).
StoredPos(x, y, max_x, max_y) == <<Clamp(x, 0, max_x), Clamp(y, 0, max_y)>>

\* Flight step or surface step (line 798), after the takeoff stage a.
MoveStage(a, dt, max_x, max_y) ==
    [(IF a.st.flight # "None"
      THEN FlightStep(a.st, a.sp, dt, max_x, max_y)
      ELSE SurfaceStep(a.st, a.sp, dt, max_x, max_y)) EXCEPT !.ev = @ \cup a.ev]

\* Landing hold timer (lines 993-999) after stage b, and the stored
\* position (line 1001).
HoldStage(b, dt, max_x, max_y) ==
    LET left == b.st.landing_left - dt
        landing == b.st.action = "Landing"
        expired == landing /\ HoldExpired(left)
        p == StoredPos(b.st.x, b.st.y, max_x, max_y)
    IN  [st |-> [b.st EXCEPT !.landing_left = IF landing THEN left ELSE @,
                             !.action = IF expired THEN "Move" ELSE @,
                             !.x = p[1], !.y = p[2]],
         sp |-> b.sp,
         ev |-> b.ev \cup (IF expired THEN {"hold_end"} ELSE {})]

\* apply_motion_and_orientation, one call with frame time dt in window
\* geometry g: the new PetState, rendering components and what happened.
apply_motion_and_orientation(s, sp, dt, g) ==
    HoldStage(MoveStage(EnterFlight(s, sp, MotionMaxX(g), MotionMaxY(g)),
                        dt, MotionMaxX(g), MotionMaxY(g)),
              dt, MotionMaxX(g), MotionMaxY(g))

\* ------------------------------------------------------ test driver
NoPreset == [kind |-> "None", wall |-> "Floor", start_pct |-> 0, target_pct |-> 0, target_y_pct |-> 0]
FloorPct(start_pct, target_pct) ==
    [NoPreset EXCEPT !.kind = "FloorPct", !.start_pct = start_pct, !.target_pct = target_pct]
FloorToWall(wall, start_pct, target_y_pct) ==
    [NoPreset EXCEPT !.kind = "FloorToWall", !.wall = wall, !.start_pct = start_pct,
                     !.target_y_pct = target_y_pct]
WallToFloorPct(target_pct) == [NoPreset EXCEPT !.kind = "WallToFloorPct", !.target_pct = target_pct]

TestCase(surface, action, dir, dur, preset) ==
    [surface |-> surface, action |-> action, dir |-> dir, dur |-> dur, preset |-> preset]

\* TestSeq::default: the fixed list of cases (percentages as whole percents).
TestCases ==
    << TestCase("Floor", "Move", 1, CASE_DUR, NoPreset),
       TestCase("Floor", "Move", -1, CASE_DUR, NoPreset),
       TestCase("Floor", "Idle", 1, CASE_DUR, NoPreset),
       TestCase("Floor", "Sleeping", 1, CASE_DUR, NoPreset),
       TestCase("Floor", "GivingFlowers", 1, DUR_GIVING_FLOWERS, NoPreset),
       TestCase("Floor", "Hiding", 1, CASE_DUR, NoPreset),
       TestCase("Floor", "Jumping", 1, CASE_DUR, FloorPct(10, 85)),
       TestCase("Floor", "Jumping", -1, CASE_DUR, FloorPct(85, 15)),
       TestCase("Floor", "Jumping", 1, CASE_DUR, FloorToWall("RightWall", 30, 40)),
       TestCase("Floor", "Jumping", -1, CASE_DUR, FloorToWall("LeftWall", 70, 60)),
       TestCase("RightWall", "Climb", 1, CASE_DUR, NoPreset),
       TestCase("RightWall", "Climb", -1, CASE_DUR, NoPreset),
       TestCase("RightWall", "Hiding", 1, CASE_DUR, NoPreset),
       TestCase("RightWall", "Jumping", 1, CASE_DUR, WallToFloorPct(25)),
       TestCase("Ceiling", "Climb", -1, CASE_DUR, NoPreset),
       TestCase("Ceiling", "Climb", 1, CASE_DUR, NoPreset),
       TestCase("Ceiling", "Hiding", -1, CASE_DUR, NoPreset),
       TestCase("LeftWall", "Climb", -1, CASE_DUR, NoPreset),
       TestCase("LeftWall", "Climb", 1, CASE_DUR, NoPreset),
       TestCase("LeftWall", "Hiding", 1, CASE_DUR, NoPreset) >>

\* The drivers' pause test reduced to the flight flag alone
DriverPausedFlightOnly(s) == s.flight # "None"

\* The drivers' pause test left out
DriverPausedNever(s) == FALSE

\* Pause while in air or landing (lines 1026 and 1076).
DriverPaused(s) == s.flight # "None" \/ s.action \in {"Jumping", "Landing"}

\* The sequencer's step to the next index, skipping one case
NextIndexSkip(i, n) == (i + 2) % n

\* seq.i = (seq.i + 1) % seq.cases.len() (line 1052).
NextIndex(i, n) == (i + 1) % n

\* apply_case_deterministic, with the monitor's size as the screen.
apply_case_deterministic(s, g, case) ==
    LET max_x == Max(g.mon_w - g.fw, 0)
        max_y == Max(g.mon_h - g.fh, 0)
        mid_y == Trunc(g.mon_h - g.fh, 2)
        s0 == [s EXCEPT !.surface = case.surface, !.action = case.action, !.dir = case.dir,
                        !.flight = "None", !.flight_from = case.surface, !.vx = 0, !.vy = 0,
                        !.landing_left = 0, !.target_x = 0, !.wall_target = <<>>]
        pr == case.preset
    IN  CASE s0.surface = "Floor" ->
               IF s0.action = "Jumping"
               THEN CASE pr.kind = "FloorPct" ->
                           LET px == Clamp(Round(max_x * pr.start_pct, 100), 0, max_x)
                               tx == Clamp(Round(max_x * pr.target_pct, 100), 0, max_x)
                           IN  [s0 EXCEPT !.x = px, !.y = max_y, !.target_x = tx,
                                          !.dir = IF tx >= px THEN 1 ELSE -1]
                      [] pr.kind = "FloorToWall" ->
                           LET px == Clamp(Round(max_x * pr.start_pct, 100), 0, max_x)
                               ty == Round(max_y * pr.target_y_pct, 100)
                               wall_x == IF pr.wall = "LeftWall" THEN 0 ELSE max_x
                           IN  [s0 EXCEPT !.x = px, !.y = max_y,
                                          !.wall_target = <<pr.wall, Clamp(ty, 0, max_y)>>,
                                          !.dir = IF wall_x >= px THEN 1 ELSE -1]
                      [] OTHER -> s0
               ELSE [s0 EXCEPT !.x = IF s0.dir >= 0 THEN START_MARGIN ELSE max_x - START_MARGIN,
                               !.y = max_y]
          [] s0.surface = "RightWall" ->
               LET y == IF s0.action = "Jumping" THEN mid_y
                        ELSE IF s0.dir >= 0 THEN max_y - START_MARGIN ELSE START_MARGIN
                   s1 == [s0 EXCEPT !.x = max_x, !.y = Clamp(y, 0, max_y)]
               IN  IF s0.action = "Jumping"
                   THEN [s1 EXCEPT !.target_x = IF pr.kind = "WallToFloorPct"
                                                THEN Round(max_x * pr.target_pct, 100) ELSE 0,
                                   !.dir = -1]
                   ELSE s1
          [] s0.surface = "Ceiling" ->
               [s0 EXCEPT !.x = Clamp(IF s0.dir < 0 THEN max_x - START_MARGIN ELSE START_MARGIN,
                                      0, max_x),
                          !.y = 0]
          [] s0.surface = "LeftWall" ->
               LET y == IF s0.action = "Jumping" THEN mid_y
                        ELSE IF s0.dir < 0 THEN START_MARGIN ELSE max_y - START_MARGIN
                   s1 == [s0 EXCEPT !.x = 0, !.y = Clamp(y, 0, max_y)]
               IN  IF s0.action = "Jumping"
                   THEN [s1 EXCEPT !.target_x = IF pr.kind = "WallToFloorPct"
                                                THEN Round(max_x * pr.target_pct, 100) ELSE 0,
                                   !.dir = 1]
                   ELSE s1

\* ---------------------------------------------------- random driver
\* RandomCtrl::default with no initial delay
RandomCtrlNoDelay == 0 * U

\* RandomCtrl::default: left = 0.6 s.
RandomCtrlDefault == (3 * U) \div 5

\* TinyRng::range_f32(a, b) for the draw k / RngDen; a, b in time units
range_f32(a, b, k) == a + ((b - a) * k) \div RngDen

\* TinyRng::range_i32(a, b) for the draw k / RngDen
range_i32(a, b, k) == IF b <= a THEN a ELSE a + (k * (b - a + 1)) \div RngDen

Draws == 0 .. RngDen

\* pick_random_case with the walls' choice of actions on every surface but the floor
pick_random_case_walls(surface) ==
    IF surface = "Floor"
    THEN {[action |-> a, dir |-> 1] : a \in {"Move", "Idle", "Sleeping", "GivingFlowers",
                                            "Hiding", "Jumping"}}
    ELSE {[action |-> a, dir |-> 1] : a \in {"Hiding", "Jumping", "Climb"}}

\* pick_random_case: the (action, dir) pairs the generator can yield on a surface.
pick_random_case(surface) ==
    LET P(action, dirs) == {[action |-> action, dir |-> d] : d \in dirs}
    IN  CASE surface = "Floor" ->
               P("Move", {-1, 1}) \cup P("Idle", {1}) \cup P("Sleeping", {1})
                 \cup P("GivingFlowers", {1}) \cup P("Hiding", {1}) \cup P("Jumping", {-1, 1})
          [] surface \in {"RightWall", "LeftWall"} ->
               P("Hiding", {1}) \cup P("Jumping", {1}) \cup P("Climb", {-1, 1})
          [] surface = "Ceiling" ->
               P("Hiding", {1}) \cup P("Climb", {-1, 1})

\* duration per action (lines 1094-1103), for the draw k / RngDen
RandomDur(action, k) ==
    CASE action = "GivingFlowers" -> DUR_GIVING_FLOWERS
      [] action = "Sleeping" -> range_f32(3 * U, 6 * U, k)
      [] action = "Hiding" -> range_f32((6 * U) \div 5, 2 * U, k)
      [] action \in {"Idle", "Move", "Climb"} -> range_f32(2 * U, 4 * U, k)
      [] OTHER -> U \div 5

\* apply_case_continuous for case c; to_wall, to_left are the chance(0.5)
\* outcomes of a floor jump and k the draw of its range_i32.
apply_case_continuous(s, g, c, to_wall, to_left, k) ==
    LET screen_w == ScreenW(g.fw)
        max_x == Max(screen_w - g.fw, 0)
        max_y == Max(ScreenH(g.fh) - g.fh, 0)
        s0 == [s EXCEPT !.action = c.action, !.dir = c.dir,
                        !.flight = "None", !.flight_from = s.surface, !.vx = 0, !.vy = 0,
                        !.landing_left = 0, !.target_x = 0, !.wall_target = <<>>]
    IN  CASE s.surface = "Floor" ->
               LET px == Clamp(s.x, 0, max_x)
                   s1 == [s0 EXCEPT !.x = px, !.y = max_y]
               IN  IF c.action = "Jumping"
                   THEN IF to_wall
                        THEN LET wall == IF to_left THEN "LeftWall" ELSE "RightWall"
                                 wall_x == IF to_left THEN 0 ELSE max_x
                                 target_y == range_i32(Trunc(10 * max_y, 100),
                                                       Trunc(90 * max_y, 100), k)
                             IN  [s1 EXCEPT !.wall_target = <<wall, target_y>>,
                                            !.dir = IF wall_x >= px THEN 1 ELSE -1]
                        ELSE LET min_dx == Trunc(screen_w * 10, 100)
                                 max_dx == Trunc(screen_w * 35, 100)
                                 dx == range_i32(min_dx, max_dx, k) * (IF c.dir >= 0 THEN 1 ELSE -1)
                                 tx == Clamp(px + dx, 0, max_x)
                             IN  [s1 EXCEPT !.target_x = tx,
                                            !.dir = IF tx >= px THEN 1 ELSE -1]
                   ELSE s1
          [] s.surface = "RightWall" ->
               LET s1 == [s0 EXCEPT !.x = max_x, !.y = Clamp(s.y, 0, max_y)]
               IN  IF c.action = "Jumping"
                   THEN [s1 EXCEPT !.target_x = range_i32(0, max_x, k), !.dir = -1]
                   ELSE s1
          [] s.surface = "Ceiling" ->
               [s0 EXCEPT !.x = Clamp(s.x, 0, max_x), !.y = 0]
          [] s.surface = "LeftWall" ->
               LET s1 == [s0 EXCEPT !.x = 0, !.y = Clamp(s.y, 0, max_y)]
               IN  IF c.action = "Jumping"
                   THEN [s1 EXCEPT !.target_x = range_i32(0, max_x, k), !.dir = 1]
                   ELSE s1

\* ------------------------------------------------------ the frame loop
\* The engine runs the Update systems animate_sprite, apply_motion_and_orientation
\* and the mode's driver once per frame, in an order it fixes when it builds
\* the schedule (the systems are added without ordering constraints).
\* animate_sprite and the drivers touch disjoint components, so only one of
\* their two relative orders is kept for each placement of the motion step.
Orders ==
    { <<"animate", "motion", "driver">>, <<"motion", "animate", "driver">>,
      <<"animate", "driver", "motion">>, <<"driver", "motion", "animate">> }

\* Frame times of a run, in time units; the first frame's delta is zero.
\* Random runs are explored at the slow frame rate only.
Ticks(m) == IF m = "Test" THEN {U \div SlowFps, U \div FastFps} ELSE {U \div SlowFps}

\* Window and monitor sizes of a run, in physical pixels.
Geom(fw, fh, mon_w, mon_h) == [fw |-> fw, fh |-> fh, mon_w |-> mon_w, mon_h |-> mon_h]
TestGeoms == {Geom(64, 64, 1920, 1080), Geom(64, 64, 1280, 720), Geom(64, 64, 2560, 1440)}
RandomGeoms == {Geom(1840, 1000, 1920, 1080)}

VARIABLES
    mode,       \* "Test" or "Random"
    order,      \* the schedule's order of the three systems
    tick,       \* the run's frame time
    geom,       \* the run's window and monitor size
    started,    \* whether the first frame has begun
    dt,         \* time.delta of the current frame
    pc,         \* 0 between frames, else the position in order of the system to run
    st,         \* PetState
    sprite,     \* Anim, TextureAtlas.index, Transform
    seq_i,      \* TestSeq.i
    seq_left,   \* TestSeq.left
    ctrl_left,  \* RandomCtrl.left
    last,       \* history: the system that took the last step
    ev,         \* history: what the last step did
    g_wall,     \* history: the wall target the driver stored with the current case
    g_since,    \* history: un-paused driver time since the last case was applied
    g_land,     \* history: motion-step time since (and including) the floor landing step
    g_phase,    \* history: how far the jump of the current case has got
    g_run,      \* history: <<x, y, time>> at the start of a run of plain on-surface steps
    g_fly,      \* history: <<time, x>> of the last flight: its length so far, the x it reached
    g_show      \* history: how much of the giving-flowers row was shown since the last case

vars == <<mode, order, tick, geom, started, dt, pc, st, sprite, seq_i, seq_left, ctrl_left,
          last, ev, g_wall, g_since, g_land, g_phase, g_run, g_fly,
          g_show>>

env == <<mode, order, tick, geom>>

Init ==
    /\ mode \in {"Test", "Random"}
    /\ order \in Orders
    /\ tick \in Ticks(mode)
    /\ geom \in IF mode = "Test" THEN TestGeoms ELSE RandomGeoms
    /\ started = FALSE
    /\ dt = 0
    /\ pc = 0
    /\ st = SpawnState
    /\ sprite = SpawnAnim
    /\ seq_i = 0
    /\ seq_left = CASE_DUR
    /\ ctrl_left = RandomCtrlDefault
    /\ last = "init"
    /\ ev = {}
    /\ g_wall = <<>>
    /\ g_since = 0
    /\ g_land = 0
    /\ g_phase = "none"
    /\ g_run = <<>>
    /\ g_fly = <<0, 0>>
    /\ g_show = "none"

\* The engine's time update at the start of a frame.
Tick ==
    /\ pc = 0
    /\ dt' = IF started THEN tick ELSE 0
    /\ started' = TRUE
    /\ pc' = 1
    /\ last' = "tick"
    /\ ev' = {}
    /\ UNCHANGED <<env, st, sprite, seq_i, seq_left, ctrl_left, g_wall, g_since, g_land, g_phase,
                   g_run, g_fly, g_show>>

Turn(sys) == pc \in 1 .. 3 /\ order[pc] = sys
Advance(sys) == pc' = (pc + 1) % 4 /\ last' = sys /\ UNCHANGED <<env, started, dt>>

\* How far the giving-flowers row has been played once sprite sp is on
\* display: its first frame, then on to its last.
ShowAfter(show, sp) ==
    IF sp.start_index = row_start(ROW_GIVING_FLOWERS)
    THEN IF show = "none" /\ sp.index = sp.start_index THEN "first"
         ELSE IF show = "first" /\ sp.index = sp.start_index + ROW_FRAMES[ROW_GIVING_FLOWERS + 1] - 1
         THEN "last"
         ELSE show
    ELSE show

Animate ==
    /\ Turn("animate")
    /\ sprite' = animate_sprite(sprite, dt)
    /\ g_show' = ShowAfter(g_show, sprite')
    /\ ev' = {}
    /\ Advance("animate")
    /\ UNCHANGED <<st, seq_i, seq_left, ctrl_left, g_wall, g_since, g_land, g_phase, g_run, g_fly>>

PhaseAfter(phase, e) ==
    CASE "hold_end" \in e -> "done"
      [] "floor_landing" \in e -> "landing"
      [] "wall_landing" \in e -> "on_wall"
      [] "takeoff" \in e -> "flying"
      [] OTHER -> phase

\* The free-axis coordinate of a pet on its surface, and that axis's bound.
FreeCoord(s) == IF s.surface \in {"Floor", "Ceiling"} THEN s.x ELSE s.y
FreeMax(s, g) == IF s.surface \in {"Floor", "Ceiling"} THEN MotionMaxX(g) ELSE MotionMaxY(g)

\* The surface's speed constant for the actions that travel along it
\* (lines 890, 923, 946, 970), and the sign of travel on the free axis (y
\* decreases upward on the walls).
SurfaceSpeed(s) ==
    CASE s.surface = "Floor" /\ s.action = "Move" -> SPEED_FLOOR
      [] s.surface \in {"RightWall", "LeftWall"} /\ s.action = "Climb" -> SPEED_WALL
      [] s.surface = "Ceiling" /\ s.action = "Climb" -> SPEED_CEIL
      [] OTHER -> 0
TravelSign(s) == IF s.surface \in {"Floor", "Ceiling"} THEN s.dir ELSE -s.dir

\* A motion step from s to s2 that only travelled along the surface: no
\* flight, no hand-off, same surface, action and dir, no corner reached.
PlainStep(s, s2, e, g) ==
    /\ e = {}
    /\ s.flight = "None" /\ s2.flight = "None"
    /\ SurfaceSpeed(s) > 0
    /\ s2.surface = s.surface /\ s2.action = s.action /\ s2.dir = s.dir
    /\ 0 < FreeCoord(s) /\ FreeCoord(s) < FreeMax(s, g)
    /\ 0 < FreeCoord(s2) /\ FreeCoord(s2) < FreeMax(s2, g)

\* The run of plain steps after one more motion step; a run longer than
\* RunSeconds is followed anew from the step's start.
RunAfter(run, s, s2, e, delta, g) ==
    IF PlainStep(s, s2, e, g)
    THEN IF run = <<>> \/ run[3] + delta > RunSeconds * U
         THEN <<s.x, s.y, delta>>
         ELSE <<run[1], run[2], run[3] + delta>>
    ELSE <<>>

\* The x a flight step reaches from s before any landing snap (lines 800, 804).
FlightX(s, delta, max_x) == Clamp(Trunc(s.x * VXQ * U + s.vx * delta, VXQ * U), 0, max_x)

\* The flight record after one more motion step on s: a step that takes off
\* starts it, every step that integrates the flight adds its frame time and
\* notes the x reached.
FlightAfter(fly, s, sp, e, delta, g) ==
    IF "takeoff" \in e \/ s.flight # "None"
    THEN <<(IF "takeoff" \in e THEN 0 ELSE fly[1]) + delta,
           FlightX(EnterFlight(s, sp, MotionMaxX(g), MotionMaxY(g)).st, delta, MotionMaxX(g))>>
    ELSE fly

Motion ==
    /\ Turn("motion")
    /\ LET r == apply_motion_and_orientation(st, sprite, dt, geom)
       IN  /\ st' = r.st
           /\ sprite' = r.sp
           /\ ev' = r.ev
           /\ g_land' = IF "floor_landing" \in r.ev THEN dt
                        ELSE IF st.action = "Landing" THEN g_land + dt
                        ELSE g_land
           /\ g_phase' = PhaseAfter(g_phase, r.ev)
           /\ g_run' = RunAfter(g_run, st, r.st, r.ev, dt, geom)
           /\ g_fly' = FlightAfter(g_fly, st, sprite, r.ev, dt, geom)
           /\ g_show' = ShowAfter(g_show, r.sp)
    /\ Advance("motion")
    /\ UNCHANGED <<seq_i, seq_left, ctrl_left, g_wall, g_since>>

\* test_driver
TestDriver ==
    /\ mode = "Test"
    /\ Turn("driver")
    /\ Advance("driver")
    /\ UNCHANGED <<sprite, ctrl_left>>
    /\ IF DriverPaused(st)
       THEN /\ ev' = {}
            /\ UNCHANGED <<st, seq_i, seq_left, g_wall, g_since, g_land, g_phase>>
       ELSE IF seq_left - dt <= 0
       THEN LET i == NextIndex(seq_i, Len(TestCases))
                case == TestCases[i + 1]
                s == apply_case_deterministic(st, geom, case)
            IN  /\ seq_i' = i
                /\ seq_left' = case.dur
                /\ st' = s
                /\ ev' = {"applied"}
                /\ g_wall' = s.wall_target
                /\ g_since' = 0
                /\ g_land' = 0
                /\ g_phase' = IF s.action = "Jumping" THEN "applied" ELSE "none"
       ELSE /\ seq_left' = seq_left - dt
            /\ g_since' = g_since + dt
            /\ ev' = {}
            /\ UNCHANGED <<st, seq_i, g_wall, g_land, g_phase>>
    /\ g_run' = IF "applied" \in ev' THEN <<>> ELSE g_run
    /\ g_fly' = IF "applied" \in ev' THEN <<0, 0>> ELSE g_fly
    /\ g_show' = IF "applied" \in ev' THEN "none" ELSE g_show

\* random_driver
RandomDriver ==
    /\ mode = "Random"
    /\ Turn("driver")
    /\ Advance("driver")
    /\ UNCHANGED <<sprite, seq_i, seq_left, g_since>>
    /\ IF DriverPaused(st)
       THEN /\ ev' = {}
            /\ UNCHANGED <<st, ctrl_left, g_wall, g_land, g_phase>>
       ELSE IF ctrl_left - dt > 0
       THEN /\ ctrl_left' = ctrl_left - dt
            /\ ev' = {}
            /\ UNCHANGED <<st, g_wall, g_land, g_phase>>
       ELSE \E c \in pick_random_case(st.surface), kd \in Draws,
               to_wall \in BOOLEAN, to_left \in BOOLEAN, k \in Draws :
                LET s == apply_case_continuous(st, geom, c, to_wall, to_left, k)
                IN  /\ ctrl_left' = RandomDur(c.action, kd)
                    /\ st' = s
                    /\ ev' = {"applied"}
                    /\ g_wall' = s.wall_target
                    /\ g_land' = 0
                    /\ g_phase' = IF s.action = "Jumping" THEN "applied" ELSE "none"
    /\ g_run' = IF "applied" \in ev' THEN <<>> ELSE g_run
    /\ g_fly' = IF "applied" \in ev' THEN <<0, 0>> ELSE g_fly
    /\ g_show' = IF "applied" \in ev' THEN "none" ELSE g_show

Next == Tick \/ Animate \/ Motion \/ TestDriver \/ RandomDriver

Spec == Init /\ [][Next]_vars

\* The deterministic run (--test): only the test driver is scheduled.
TestInit == Init /\ mode = "Test"
TestNext == Tick \/ Animate \/ Motion \/ TestDriver
TestSpec == TestInit /\ [][TestNext]_vars

\* ====================================================== claims
Walls == {"LeftWall", "RightWall"}
MaxXNow == MotionMaxX(geom)
MaxYNow == MotionMaxY(geom)

\* The step about to be taken is the driver's / the motion step's.
DriverTurn == pc \in 1 .. 3 /\ order[pc] = "driver"
MotionTurn == pc \in 1 .. 3 /\ order[pc] = "motion"

\* C1: in both modes and for either order of driver and motion step, a
\* driver step taken while flight # None or action is Jumping or Landing
\* changes neither the case index, the driver's timer nor PetState (the
\* window position included); a case is applied only by a driver step taken
\* while flight = None and action is neither Jumping nor Landing.
C1_DriverBlocked ==
    [][ /\ (DriverTurn /\ (st.flight # "None" \/ st.action \in {"Jumping", "Landing"}))
            => (st' = st /\ seq_i' = seq_i /\ seq_left' = seq_left /\ ctrl_left' = ctrl_left)
        /\ ("applied" \in ev' \/ seq_i' # seq_i)
            => (DriverTurn /\ st.flight = "None" /\ st.action \notin {"Jumping", "Landing"})
      ]_vars

\* C1 witness: the driver has just taken its step on an airborne pet.
C1_Witness == last = "driver" /\ st.flight = "Parabola" /\ started

\* C2: a floor jump started with a wall target ends on that wall once x
\* reaches the wall's edge during the flight: the pet snaps to (edge, target
\* y clamped), surface becomes the wall, action Climb, dir +1 if vy <= 0 else
\* -1, flight None.  (Stated of every motion step of such a flight; the code
\* clears the target at takeoff, so the step never captures.)
C2_WallLanding ==
    [][ (MotionTurn /\ g_wall # <<>> /\ g_phase \in {"applied", "flying"})
        => LET edge == IF g_wall[1] = "LeftWall" THEN 0 ELSE MaxXNow
               x1 == Clamp(Trunc(st.x * VXQ * U + st'.vx * dt, VXQ * U), 0, MaxXNow)
           IN  x1 = edge
               => /\ st'.flight = "None"
                  /\ st'.surface = g_wall[1]
                  /\ st'.action = "Climb"
                  /\ st'.x = edge
                  /\ st'.y = Clamp(g_wall[2], 0, MaxYNow)
                  /\ st'.dir = IF st'.vy <= 0 THEN 1 ELSE -1
      ]_vars

\* A motion step in which a flight ended on the floor.
FloorLandingStep == MotionTurn /\ "floor_landing" \in ev'

C4_LandingFacing ==
    [][ FloorLandingStep
        => /\ st'.flight_from = "RightWall" => st'.dir = -1
           /\ st'.flight_from = "LeftWall" => st'.dir = 1
           /\ st'.flight_from \notin Walls => st'.dir = (IF st'.vx >= 0 THEN 1 ELSE -1)
      ]_vars

\* C4 witness: a jump from the right wall has just landed on the floor.
C4_Witness == last = "motion" /\ "floor_landing" \in ev /\ st.flight_from = "RightWall"

\* C5: after a floor landing action stays Landing while the frame time
\* accumulated by the motion steps since (and including) the landing step is
\* below LANDING_HOLD, and becomes Move in the first motion step in which
\* that time reaches LANDING_HOLD; nothing else follows Landing, nothing but
\* the motion step's hold timer ends it, and only a floor landing starts it.
C5_LandingHold ==
    [][ /\ st.action = "Landing" => st'.action \in {"Landing", "Move"}
        /\ (st.action = "Landing" /\ st'.action = "Move")
            => (MotionTurn /\ g_land < LANDING_HOLD /\ g_land' >= LANDING_HOLD)
        /\ st'.action = "Landing" => g_land' < LANDING_HOLD
        /\ (st.action # "Landing" /\ st'.action = "Landing") => FloorLandingStep
      ]_vars

\* C5 witness: the hold has just ended and the pet walks on.
C5_Witness == last = "motion" /\ "hold_end" \in ev /\ st.action = "Move" /\ g_land >= LANDING_HOLD

\* C6: after every motion step the stored position lies in the motion
\* step's rectangle, and an in-flight step that does not land keeps vx and
\* adds only gravity to vy (clamped, never bounced).
C6_PositionClamped ==
    [][ MotionTurn
        => /\ 0 <= st'.x /\ st'.x <= MaxXNow
           /\ 0 <= st'.y /\ st'.y <= MaxYNow
           /\ (st.flight = "Parabola" /\ st'.flight = "Parabola")
               => (st'.vx = st.vx /\ st'.vy = st.vy + (VYQ * GRAVITY * dt) \div U)
      ]_vars

\* C6 witness: a rising pet is held by the clamp at the top of the screen.
C6_Witness == last = "motion" /\ st.flight = "Parabola" /\ st.y = 0 /\ st.vy < 0

\* C7: in every reachable state the displayed atlas index lies in
\* [anim.start_index, anim.start_index + anim.len).
C7_FrameInRow ==
    sprite.start_index <= sprite.index /\ sprite.index < sprite.start_index + sprite.len

\* C7 witness: the giving-flowers row shows its last frame.
C7_Witness ==
    /\ sprite.start_index = row_start(ROW_GIVING_FLOWERS)
    /\ sprite.index = sprite.start_index + sprite.len - 1

\* C8: the deterministic driver applies its cases in list order, cyclically:
\* each application moves the index from i to (i + 1) mod N and installs that
\* case's surface and action, and happens only once the un-paused driver time
\* since the previous application has reached the previous case's duration.
C8_CasesInOrder ==
    [][ (mode = "Test" /\ (seq_i' # seq_i \/ "applied" \in ev'))
        => /\ DriverTurn
           /\ seq_i' = (seq_i + 1) % Len(TestCases)
           /\ st'.surface = TestCases[seq_i' + 1].surface
           /\ st'.action = TestCases[seq_i' + 1].action
           /\ seq_left' = TestCases[seq_i' + 1].dur
           /\ g_since + dt >= TestCases[seq_i + 1].dur
      ]_vars

\* C8 witness: the list has wrapped around to its first case.
C8_Witness == mode = "Test" /\ "applied" \in ev /\ seq_i = 0

\* C9: in deterministic mode a Jumping case is followed by takeoff, landing
\* and the end of the landing hold, in that order, and the next case is
\* applied only after that.  (Takeoff and landing may fall into one motion
\* step, which then takes off before it lands.)
C9_JumpCompletes ==
    [][ mode = "Test"
        => /\ "applied" \in ev' => g_phase \in {"none", "done"}
           /\ g_phase' # g_phase
               => <<g_phase, g_phase'>> \in
                    { <<"none", "applied">>, <<"done", "applied">>, <<"done", "none">>,
                      <<"applied", "flying">>, <<"flying", "landing">>, <<"landing", "done">>,
                      <<"applied", "landing">> }
           /\ (g_phase = "applied" /\ g_phase' = "landing")
               => (MotionTurn /\ {"takeoff", "floor_landing"} \subseteq ev')
           /\ g_phase' = "applied" => (st'.action = "Jumping" /\ st'.flight = "None")
           /\ g_phase' = "flying" <=> st'.flight = "Parabola"
           /\ g_phase' = "landing" <=> st'.action = "Landing"
           /\ st'.action = "Jumping" => g_phase' \in {"applied", "flying"}
      ]_vars

\* C9 witness: a jump of the test list is over and the driver runs again.
C9_Witness == mode = "Test" /\ g_phase = "done" /\ last = "driver"

Grounded(s) == s.flight = "None" /\ s.action \notin {"Jumping", "Landing"}

\* The position lies on the edge of the current surface.
OnEdge(s) ==
    CASE s.surface = "Floor" -> s.y = MaxYNow
      [] s.surface = "Ceiling" -> s.y = 0
      [] s.surface = "RightWall" -> s.x = MaxXNow
      [] s.surface = "LeftWall" -> s.x = 0

\* From s to s2 only the free-axis coordinate of s's surface changed.
FreeAxisOnly(s, s2) == IF s.surface \in {"Floor", "Ceiling"} THEN s2.y = s.y ELSE s2.x = s.x

AllowedActions(surface) ==
    CASE surface = "Floor" -> {"Move", "Idle", "Sleeping", "GivingFlowers", "Hiding", "Jumping"}
      [] surface \in Walls -> {"Climb", "Hiding", "Jumping"}
      [] surface = "Ceiling" -> {"Climb", "Hiding"}

\* C12: a random driver step never changes the surface, and when it applies
\* a case the action it assigns is one allowed on the pet's surface: on Floor
\* Move, Idle, Sleeping, GivingFlowers, Hiding or Jumping; on the walls Climb,
\* Hiding or Jumping; on Ceiling Climb or Hiding.  A step that applies no
\* case leaves the action alone.
C12_ValidAction ==
    [][ (mode = "Random" /\ DriverTurn)
        => /\ st'.surface = st.surface
           /\ "applied" \in ev' => st'.action \in AllowedActions(st.surface)
           /\ "applied" \notin ev' => st'.action = st.action
      ]_vars

\* C12 witness: the random driver has just applied a case on the ceiling.
C12_Witness == mode = "Random" /\ last = "driver" /\ "applied" \in ev /\ st.surface = "Ceiling"

\* ------------------------------------------------ single motion steps
\* The motion step, the visual table and the animation clock applied to any
\* PetState that stands on the edge of its surface: every surface, action
\* and dir, at the corners, next to them and in the middle, at three frame
\* rates.  No driver runs; a frame is the visual update, the motion step and
\* the animation tick, in that order.
StepTicks == {U \div SlowFps, U \div FastFps, U \div HighFps}
StepGeom == Geom(64, 64, 1920, 1080)
StepCoords(max) == {0, 1, max \div 2, max - 1, max}

StepState(surface, action, dir, c, g) ==
    [SpawnState EXCEPT !.surface = surface, !.action = action, !.dir = dir,
        !.x = CASE surface = "RightWall" -> MotionMaxX(g)
                [] surface = "LeftWall" -> 0
                [] OTHER -> c,
        !.y = CASE surface = "Floor" -> MotionMaxY(g)
                [] surface = "Ceiling" -> 0
                [] OTHER -> c,
        !.flight_from = surface,
        !.landing_left = IF action = "Landing" THEN LANDING_HOLD ELSE 0,
        !.target_x = MotionMaxX(g) \div 2]

StepStates(g) ==
    UNION { { StepState(surface, action, dir, c, g) :
                action \in Actions, dir \in {-1, 1},
                c \in StepCoords(IF surface \in {"Floor", "Ceiling"}
                                 THEN MotionMaxX(g) ELSE MotionMaxY(g)) } :
            surface \in Surfaces }

StepInit ==
    /\ mode = "Step"
    /\ order = <<"visual", "motion", "animate">>
    /\ tick \in StepTicks
    /\ geom = StepGeom
    /\ started = TRUE
    /\ dt = tick
    /\ pc = 0
    /\ st \in StepStates(geom)
    /\ sprite = SpawnAnim
    /\ seq_i = 0
    /\ seq_left = CASE_DUR
    /\ ctrl_left = RandomCtrlDefault
    /\ last = "init"
    /\ ev = {}
    /\ g_wall = <<>>
    /\ g_since = 0
    /\ g_land = 0
    /\ g_phase = "none"
    /\ g_run = <<>>
    /\ g_fly = <<0, 0>>
    /\ g_show = "none"

StepFrame == <<env, started, dt, pc, seq_i, seq_left, ctrl_left, g_wall, g_since, g_land, g_phase,
              g_fly, g_show>>

\* set_visual_for applied to the pet's (surface, action, dir).
StepVisual ==
    /\ last \in {"init", "animate"}
    /\ sprite' = set_visual_for(st.surface, st.action, st.dir, sprite)
    /\ last' = "visual"
    /\ ev' = {}
    /\ UNCHANGED <<StepFrame, st, g_run>>

\* apply_motion_and_orientation
StepMotion ==
    /\ last = "visual"
    /\ LET r == apply_motion_and_orientation(st, sprite, dt, geom)
       IN  /\ st' = r.st
           /\ sprite' = r.sp
           /\ ev' = r.ev
           /\ g_run' = RunAfter(g_run, st, r.st, r.ev, dt, geom)
    /\ last' = "motion"
    /\ UNCHANGED StepFrame

\* animate_sprite
StepAnimate ==
    /\ last = "motion"
    /\ sprite' = animate_sprite(sprite, dt)
    /\ last' = "animate"
    /\ ev' = {}
    /\ UNCHANGED <<StepFrame, st, g_run>>

StepNext == StepVisual \/ StepMotion \/ StepAnimate

StepSpec == StepInit /\ [][StepNext]_vars

\* The step being taken is StepMotion / StepVisual.
MotionStepTaken == last = "visual" /\ last' = "motion"
VisualStepTaken == last \in {"init", "animate"} /\ last' = "visual"

\* C13: a motion step on a pet with surface = Ceiling and action = Jumping
\* never enters flight: flight stays None, vx and vy are not set, action
\* stays Jumping and the position stays where it is on the ceiling edge; the
\* state after the step is again such a state, so this holds for every
\* subsequent tick.
C13_NoCeilingJump ==
    [][ (MotionStepTaken /\ st.surface = "Ceiling" /\ st.action = "Jumping" /\ st.flight = "None")
        => /\ st'.flight = "None"
           /\ "takeoff" \notin ev'
           /\ st'.vx = st.vx /\ st'.vy = st.vy
           /\ st'.action = "Jumping"
           /\ st'.surface = "Ceiling"
           /\ st'.x = st.x /\ st'.y = 0
      ]_vars

\* C13 witness: a motion step has run on a ceiling pet told to jump, which
\* shows the idle pose.
C13_Witness ==
    /\ last = "motion" /\ st.surface = "Ceiling" /\ st.action = "Jumping"
    /\ st.flight = "None" /\ sprite.start_index = row_start(ROW_IDLE1)

\* The position lies inside the motion step's rectangle.
InRect(s) == 0 <= s.x /\ s.x <= MaxXNow /\ 0 <= s.y /\ s.y <= MaxYNow

\* A motion step that kept position, surface, action and dir.
StoodStill == st'.x = st.x /\ st'.y = st.y /\ st'.surface = st.surface
              /\ st'.action = st.action /\ st'.dir = st.dir

\* The (surface, action) pairs the motion step leaves in place: everything
\* that neither travels (Floor Move and Landing, Climb elsewhere), takes off
\* (Jumping on the floor and the walls) nor runs the landing hold.
Stationary(s) ==
    CASE s.surface = "Floor" -> s.action \in {"Idle", "Sleeping", "GivingFlowers", "Hiding", "Climb"}
      [] s.surface \in Walls -> s.action \notin {"Climb", "Jumping", "Landing"}
      [] s.surface = "Ceiling" -> s.action \notin {"Climb", "Landing"}

\* C14 (as amended): a motion step on a pet not in flight, on the edge of its
\* surface and inside the rectangle keeps position, surface, action and dir
\* on Floor for Idle, Sleeping, GivingFlowers, Hiding (and Climb), on the
\* walls for every action but Climb, Jumping and Landing, and on Ceiling for
\* every action but Climb and Landing.
C14_Stationary ==
    [][ (MotionStepTaken /\ st.flight = "None" /\ OnEdge(st) /\ InRect(st) /\ Stationary(st))
        => StoodStill
      ]_vars

\* C14 as stated: on walls and Ceiling every action other than Climb is stationary.
C14_Original ==
    [][ (/\ MotionStepTaken /\ st.flight = "None" /\ OnEdge(st) /\ InRect(st)
         /\ IF st.surface = "Floor"
            THEN st.action \in {"Idle", "Sleeping", "GivingFlowers", "Hiding"}
            ELSE st.action # "Climb")
        => StoodStill
      ]_vars

\* C14 witness: a motion step has run on a pet sleeping in the middle of the floor.
C14_Witness ==
    /\ last = "motion" /\ st.surface = "Floor" /\ st.action = "Sleeping"
    /\ st.x = MaxXNow \div 2 /\ st.y = MaxYNow

\* C15: over a run of consecutive plain on-surface motion steps (same
\* surface, action and dir, no corner reached) the free-axis displacement
\* is the surface's speed times the elapsed time, in the direction of
\* travel, to within one pixel (Floor Move 90 px/s, wall Climb 70 px/s with
\* dir > 0 meaning up, Ceiling Climb 90 px/s).
C15_FixedSpeed ==
    g_run # <<>>
    => LET from == IF st.surface \in {"Floor", "Ceiling"} THEN g_run[1] ELSE g_run[2]
           err == (FreeCoord(st) - from) * U - TravelSign(st) * SurfaceSpeed(st) * g_run[3]
       IN  -U <= err /\ err <= U

\* The corner hand-offs of the perimeter loop: from (surface, action, dir)
\* to the adjacent surface at the corner lying in the direction of travel.
AdjacentHandOff(s, s2) ==
    \/ /\ s.surface = "Floor" /\ s.action = "Move" /\ s.dir < 0
       /\ s2.surface = "LeftWall" /\ s2.action = "Climb" /\ s2.dir = 1
       /\ s2.x = 0 /\ s2.y = MaxYNow
    \/ /\ s.surface = "Floor" /\ s.action = "Move" /\ s.dir > 0
       /\ s2.surface = "RightWall" /\ s2.action = "Climb" /\ s2.dir = 1
       /\ s2.x = MaxXNow /\ s2.y = MaxYNow
    \/ /\ s.surface = "RightWall" /\ s.action = "Climb" /\ s.dir > 0
       /\ s2.surface = "Ceiling" /\ s2.action = "Climb" /\ s2.dir = -1
       /\ s2.x = MaxXNow /\ s2.y = 0
    \/ /\ s.surface = "LeftWall" /\ s.action = "Climb" /\ s.dir > 0
       /\ s2.surface = "Ceiling" /\ s2.action = "Climb" /\ s2.dir = 1
       /\ s2.x = 0 /\ s2.y = 0
    \/ /\ s.surface = "RightWall" /\ s.action = "Climb" /\ s.dir < 0
       /\ s2.surface = "Floor" /\ s2.action = "Move" /\ s2.dir = -1
       /\ s2.x = MaxXNow /\ s2.y = MaxYNow
    \/ /\ s.surface = "LeftWall" /\ s.action = "Climb" /\ s.dir < 0
       /\ s2.surface = "Floor" /\ s2.action = "Move" /\ s2.dir = 1
       /\ s2.x = 0 /\ s2.y = MaxYNow
    \/ /\ s.surface = "Ceiling" /\ s.action = "Climb" /\ s.dir < 0
       /\ s2.surface = "LeftWall" /\ s2.action = "Climb" /\ s2.dir = -1
       /\ s2.x = 0 /\ s2.y = 0
    \/ /\ s.surface = "Ceiling" /\ s.action = "Climb" /\ s.dir > 0
       /\ s2.surface = "RightWall" /\ s2.action = "Climb" /\ s2.dir = -1
       /\ s2.x = MaxXNow /\ s2.y = 0

\* C16: a motion step that changes the surface of a pet that is not in
\* flight and does not take off is one of the eight corner hand-offs: to the
\* adjacent surface, at the corner the pet was travelling towards, with the
\* action and dir of the new surface; a pet moving away from the corner it
\* stands on keeps its surface.
C16_HandOffs ==
    [][ (/\ MotionStepTaken /\ st.flight = "None" /\ "takeoff" \notin ev'
         /\ OnEdge(st) /\ InRect(st)
         /\ st'.surface # st.surface)
        => AdjacentHandOff(st, st')
      ]_vars

\* C17: in deterministic mode the surface changes only when the driver
\* applies a case or when a jump lands; the motion step makes no corner
\* hand-off.
C17_NoAutoTransition ==
    [][ (mode = "Test" /\ st'.surface # st.surface)
        => ("applied" \in ev' \/ "floor_landing" \in ev' \/ "wall_landing" \in ev')
      ]_vars

\* Every (surface, action, dir) the visual table is asked about.
VisualInputs == Surfaces \X Actions \X {-1, 1}

\* C18: for every (surface, action, dir), unmapped pairs included, the
\* visual table returns a row in [0, SHEET_ROWS) whose frame count is
\* positive and at most SHEET_COLS; so the atlas index after the visual is
\* applied, and after every later step, lies inside the sheet, in the row
\* the table chose.
C18_RowInSheet ==
    [][ /\ sprite'.index \in 0..(SHEET_COLS * SHEET_ROWS - 1)
        /\ VisualStepTaken
           => /\ \A i \in VisualInputs :
                    LET row == VisualFor(i[1], i[2], i[3]).row
                    IN  /\ row \in 0..(SHEET_ROWS - 1)
                        /\ ROW_FRAMES[row + 1] > 0
                        /\ ROW_FRAMES[row + 1] <= SHEET_COLS
              /\ LET row == VisualFor(st.surface, st.action, st.dir).row
                 IN  /\ sprite'.index \div SHEET_COLS = row
                     /\ sprite'.index % SHEET_COLS < ROW_FRAMES[row + 1]
      ]_vars

\* C18 witness: the visual table has been applied to the unmapped pair
\* Ceiling + Jumping and the sprite shows the idle row.
C18_Witness ==
    /\ last = "visual" /\ st.surface = "Ceiling" /\ st.action = "Jumping"
    /\ sprite.start_index = 0 /\ sprite.len = 13

\* The (surface, action) pairs that have an arm of their own in the visual table.
MappedPairs ==
    ({"Floor"} \X {"Move", "Idle", "Sleeping", "GivingFlowers", "Hiding", "Jumping", "Landing"})
    \cup ({"RightWall", "LeftWall"} \X {"Climb", "Hiding", "Jumping"})
    \cup ({"Ceiling"} \X {"Climb", "Hiding"})

\* The sheet row that shows an action, and the rate it plays at.
RowOfAction(action) ==
    CASE action = "Move" -> ROW_WALK_R
      [] action = "Climb" -> ROW_CLIMB_R
      [] action = "Hiding" -> ROW_HIDE
      [] action = "Jumping" -> ROW_JUMP_R
      [] action = "Landing" -> ROW_LAND_R
      [] action = "Sleeping" -> ROW_SLEEP
      [] action = "GivingFlowers" -> ROW_GIVING_FLOWERS
      [] action = "Idle" -> ROW_IDLE1

\* C19: applying the visual for (surface, action, dir) shows the row of the
\* action when the pair is mapped (Move walk, Climb climb, Hiding hide,
\* Jumping jump, Landing land, Sleeping sleep, GivingFlowers giving-flowers,
\* Idle idle) and the idle row at the idle rate with no rotation and no
\* flips when it is not; the result is a function of (surface, action, sign
\* of dir) alone, does not depend on dir for Idle, Sleeping, GivingFlowers
\* and Hiding, and on the Floor Move, Jumping and Landing flip x exactly
\* when dir < 0.
C19_VisualTable ==
    [][ VisualStepTaken
        => LET mapped == <<st.surface, st.action>> \in MappedPairs
               v == VisualFor(st.surface, st.action, st.dir)
               w == VisualFor(st.surface, st.action, -st.dir)
           IN  /\ sprite'.start_index = (IF mapped THEN RowOfAction(st.action) ELSE ROW_IDLE1) * SHEET_COLS
               /\ sprite'.len = ROW_FRAMES[(IF mapped THEN RowOfAction(st.action) ELSE ROW_IDLE1) + 1]
               /\ sprite'.rot = v.rot /\ sprite'.flip_x = v.flip_x /\ sprite'.flip_y = v.flip_y
               /\ ~mapped => /\ sprite'.dur = U \div FPS_IDLE
                             /\ sprite'.rot = 0 /\ ~sprite'.flip_x /\ ~sprite'.flip_y
               /\ st.action \in {"Idle", "Sleeping", "GivingFlowers", "Hiding"} => v = w
               /\ (st.surface = "Floor" /\ st.action \in {"Move", "Jumping", "Landing"})
                  => sprite'.flip_x = (st.dir < 0)
      ]_vars

\* C19 witness: the visual has been applied to a pet walking left on the
\* floor, and the walk row is shown mirrored.
C19_Witness ==
    /\ last = "visual" /\ st.surface = "Floor" /\ st.action = "Move" /\ st.dir = -1
    /\ sprite.start_index = ROW_WALK_R * SHEET_COLS /\ sprite.flip_x

\* C20: set_anim_if_changed, called by the visual step with the row and
\* rate of the pet's visual, leaves start_index, len, the timer (duration and
\* elapsed time) and the displayed frame as they are when the row and rate
\* are the current ones; otherwise it takes the new row's start_index, len
\* and rate, restarts the timer and shows the first frame of the new row.
C20_SetAnim ==
    [][ VisualStepTaken
        => LET v == VisualFor(st.surface, st.action, st.dir)
               start == v.row * SHEET_COLS
               len == ROW_FRAMES[v.row + 1]
               spf == U \div v.fps
               same == sprite.start_index = start /\ sprite.len = len /\ sprite.dur = spf
           IN  IF same
               THEN /\ sprite'.start_index = sprite.start_index
                    /\ sprite'.len = sprite.len
                    /\ sprite'.dur = sprite.dur
                    /\ sprite'.elapsed = sprite.elapsed
                    /\ sprite'.index = sprite.index
               ELSE /\ sprite'.start_index = start
                    /\ sprite'.len = len
                    /\ sprite'.dur = spf
                    /\ sprite'.elapsed = 0
                    /\ sprite'.index = start
      ]_vars

\* C20 witness: the visual has been applied again to a pet whose animation
\* is under way, and it still shows a later frame of its row with the timer
\* part-way through.
C20_Witness ==
    /\ last = "visual" /\ sprite.index > sprite.start_index /\ sprite.elapsed > 0
    /\ sprite.start_index = VisualFor(st.surface, st.action, st.dir).row * SHEET_COLS

\* ------------------------------------------------ animate_sprite alone
\* animate_sprite applied tick after tick to an Anim on any row of the
\* visual table, with the atlas index anywhere from one before the row to
\* one past it.
AnimStarts ==
    { [AnimNew(row_start(v.row), ROW_FRAMES[v.row + 1], v.fps) EXCEPT !.index = idx] :
        <<v, idx>> \in { <<w, j>> \in { VisualFor(i[1], i[2], i[3]) : i \in VisualInputs }
                                      \X (0 .. SHEET_COLS * SHEET_ROWS) :
                            /\ j >= row_start(w.row) - 1
                            /\ j <= row_start(w.row) + ROW_FRAMES[w.row + 1] } }

AnimInit ==
    /\ mode = "Anim"
    /\ order = <<"animate", "animate", "animate">>
    /\ tick \in StepTicks
    /\ geom = StepGeom
    /\ started = TRUE
    /\ dt = tick
    /\ pc = 0
    /\ st = SpawnState
    /\ sprite \in AnimStarts
    /\ seq_i = 0
    /\ seq_left = CASE_DUR
    /\ ctrl_left = RandomCtrlDefault
    /\ last = "init"
    /\ ev = {}
    /\ g_wall = <<>>
    /\ g_since = 0
    /\ g_land = 0
    /\ g_phase = "none"
    /\ g_run = <<>>
    /\ g_fly = <<0, 0>>
    /\ g_show = "none"

\* What a call of animate_sprite on sp did: the timer finished, the index
\* was outside the row, the frame wrapped from the last to the first.
AnimEvents(sp, delta) ==
    LET outside == sp.index < sp.start_index \/ sp.index >= sp.start_index + sp.len
    IN  IF sp.elapsed + delta >= sp.dur
        THEN {"expired"} \cup (IF outside THEN {"outside"} ELSE {})
                         \cup (IF sp.index = sp.start_index + sp.len - 1 THEN {"wrapped"} ELSE {})
        ELSE {}

AnimStep ==
    /\ sprite' = animate_sprite(sprite, dt)
    /\ ev' = AnimEvents(sprite, dt)
    /\ last' = "animate"
    /\ UNCHANGED <<StepFrame, st, g_run>>

AnimSpec == AnimInit /\ [][AnimStep]_vars

C22_JumpVisual ==
    st.flight = "Parabola"
    => /\ sprite.start_index = ROW_JUMP_R * SHEET_COLS
       /\ sprite.len = 1
       /\ sprite.index = ROW_JUMP_R * SHEET_COLS
       /\ sprite.rot = 0
       /\ ~sprite.flip_y
       /\ sprite.flip_x = CASE st.flight_from = "Floor" -> st.dir < 0
                            [] st.flight_from = "RightWall" -> TRUE
                            [] OTHER -> FALSE

\* C22 witness: animate_sprite has just run, with its timer finishing, on a
\* pet in flight from the right wall.
C22_Witness ==
    /\ last = "animate" /\ st.flight = "Parabola" /\ st.flight_from = "RightWall"
    /\ sprite.elapsed < dt /\ dt > 0

Abs(n) == IF n < 0 THEN -n ELSE n

\* C23: when a floor-to-floor jump applied by the deterministic driver (no
\* wall target stored with the case) lands, the flight has lasted
\* 2 * |FLOOR_JUMP_VY0| / GRAVITY = 1 s of frame time to within one frame,
\* and the x reached by the flight is within a few pixels (4) of target_x,
\* the x the landing snaps to.
C23_FloorJump ==
    [][ (/\ mode = "Test" /\ MotionTurn /\ "floor_landing" \in ev'
         /\ st'.flight_from = "Floor" /\ g_wall = <<>>)
        => /\ Abs(g_fly'[1] * GRAVITY - 2 * (-FLOOR_JUMP_VY0) * U) <= tick * GRAVITY
           /\ Abs(g_fly'[2] - st'.target_x) <= 4
      ]_vars

\* C24: when the driver applies the next case after a GivingFlowers case,
\* the giving-flowers row has been displayed from its first frame to its
\* last (all 27 frames) since that case was applied.
C24_FlowersShown ==
    [][ ("applied" \in ev' /\ st.action = "GivingFlowers") => g_show = "last" ]_vars

Sign(n) == IF n > 0 THEN 1 ELSE IF n < 0 THEN -1 ELSE 0

\* C25: a motion step that finds action = Jumping, flight = None and
\* surface # Ceiling takes off in that step: flight_from is the surface it
\* stood on, vy is FLOOR_JUMP_VY0 from the floor and WALL_JUMP_VY0 from a
\* wall (plus the gravity of the flight step that runs in the same call),
\* vx points from the position to the stored target (the wall of a wall
\* target, else target_x), and the flight is entered (it is over after the
\* step only if that step also landed). In every state a pet in flight has
\* action = Jumping and surface = flight_from # Ceiling.
C25_Takeoff ==
    [][ /\ (MotionTurn /\ st.action = "Jumping" /\ st.flight = "None" /\ st.surface # "Ceiling")
           => /\ "takeoff" \in ev'
              /\ st'.flight_from = st.surface
              /\ st'.vy = (IF st.surface = "Floor" THEN FLOOR_JUMP_VY0 ELSE WALL_JUMP_VY0) * VYQ
                              + (VYQ * GRAVITY * dt) \div U
              /\ Sign(st'.vx) = Sign((IF st.surface = "Floor" /\ st.wall_target # <<>>
                                       THEN (IF st.wall_target[1] = "LeftWall" THEN 0 ELSE MaxXNow)
                                       ELSE st.target_x) - st.x)
              /\ st'.flight = "Parabola" \/ "floor_landing" \in ev' \/ "wall_landing" \in ev'
        /\ "takeoff" \in ev'
           => (MotionTurn /\ st.action = "Jumping" /\ st.flight = "None" /\ st.surface # "Ceiling")
        /\ st'.flight = "Parabola"
           => (st'.action = "Jumping" /\ st'.surface = st'.flight_from /\ st'.surface # "Ceiling")
      ]_vars

\* C25 witness: a motion step has just taken off from a wall.
C25_Witness ==
    /\ last = "motion" /\ "takeoff" \in ev /\ st.flight = "Parabola"
    /\ st.flight_from \in Walls /\ st.surface = st.flight_from

\* A flight step that neither lands on the floor nor is caught by a wall.
InFlightStep == MotionStepTaken /\ st.flight = "Parabola" /\ st'.flight = "Parabola"

\* C26: an in-flight motion step that does not land first adds GRAVITY * dt
\* to vy and then moves the position by (vx * dt, vy * dt) with the updated
\* vy (truncated to whole pixels and kept inside the rectangle); vx,
\* surface, action, dir and target_x are left as they are.
C26_FlightStep ==
    [][ InFlightStep
        => LET vy1 == st.vy + (VYQ * GRAVITY * dt) \div U
           IN  /\ st'.vy = vy1
               /\ st'.x = Clamp(Trunc(st.x * VXQ * U + st.vx * dt, VXQ * U), 0, MaxXNow)
               /\ st'.y = Clamp(Trunc(st.y * VYQ * U + vy1 * dt, VYQ * U), 0, MaxYNow)
               /\ st'.vx = st.vx /\ st'.surface = st.surface /\ st'.action = st.action
               /\ st'.dir = st.dir /\ st'.target_x = st.target_x
      ]_vars

\* C26 witness: an in-flight step has moved a falling pet down and sideways.
C26_Witness ==
    /\ last = "motion" /\ st.flight = "Parabola" /\ ev = {}
    /\ st.vy > 0 /\ st.vx # 0 /\ 0 < st.y /\ st.y < MaxYNow

\* ------------------------------------------------------ flights alone
\* The frames of one jump: a pet told to jump from the floor or a wall,
\* from any of the StepCoords of its edge, to a floor target or (from the
\* floor) a wall target, followed until it has landed.
FlightTargets(g) == {0, MotionMaxX(g) \div 2, MotionMaxX(g)}
FlightWallTargets(g) == {<<>>, <<"LeftWall", MotionMaxY(g) \div 2>>, <<"RightWall", 0>>}

FlightStates(g) ==
    { [s EXCEPT !.target_x = tx, !.wall_target = IF s.surface = "Floor" THEN wt ELSE <<>>] :
        <<s, tx, wt>> \in { q \in StepStates(g) : q.action = "Jumping" /\ q.surface # "Ceiling" }
                           \X FlightTargets(g) \X FlightWallTargets(g) }

FlightInit ==
    /\ mode = "Flight"
    /\ order = <<"visual", "motion", "animate">>
    /\ tick \in StepTicks
    /\ geom = StepGeom
    /\ started = TRUE
    /\ dt = tick
    /\ pc = 0
    /\ st \in FlightStates(geom)
    /\ sprite = SpawnAnim
    /\ seq_i = 0
    /\ seq_left = CASE_DUR
    /\ ctrl_left = RandomCtrlDefault
    /\ last = "init"
    /\ ev = {}
    /\ g_wall = <<>>
    /\ g_since = 0
    /\ g_land = 0
    /\ g_phase = "none"
    /\ g_run = <<>>
    /\ g_fly = <<0, 0>>
    /\ g_show = "none"

\* The jump is under way: told to jump, or in the air.
Airborne == st.action = "Jumping" \/ st.flight # "None"

FlightNext == Airborne /\ StepNext

\* The next system of the schedule takes its turn.
SystemRuns == last' \in {"visual", "motion", "animate"} /\ last' # last

\* The schedule runs every system in every frame: while the jump is under
\* way the next system always gets its turn.
FlightSpec == FlightInit /\ [][FlightNext]_vars /\ WF_last(Airborne /\ SystemRuns)

\* C27: every flight ends: from a state with flight = Parabola, with the
\* motion step run frame after frame at a positive frame time, a state
\* with flight = None (a landing) is reached, whatever the start position
\* and the target, also when the clamp holds the pet at the top or at a
\* side of the rectangle.
C27_FlightEnds == (st.flight = "Parabola") ~> (st.flight = "None")

\* C27 witness: a pet in flight from the floor is held by the clamp at the
\* right side of the rectangle, still above the floor.
C27_Witness ==
    /\ last = "motion" /\ st.flight = "Parabola" /\ st.flight_from = "Floor"
    /\ st.x = MaxXNow /\ st.vx > 0 /\ st.y < MaxYNow

\* ------------------------------------------------------ fair frames
\* The engine keeps running frames, and in a frame every system of the
\* schedule: the frame position always moves on.
FrameRuns == pc' \in 0 .. 3 /\ pc' # pc
FairSpec == Spec /\ WF_pc(FrameRuns)

C29_MappedPair ==
    /\ \/ st.surface = "Floor"
          /\ st.action \in {"Move", "Idle", "Sleeping", "GivingFlowers", "Hiding", "Jumping", "Landing"}
       \/ st.surface \in {"RightWall", "LeftWall"} /\ st.action \in {"Climb", "Hiding", "Jumping"}
       \/ st.surface = "Ceiling" /\ st.action \in {"Climb", "Hiding"}
    /\ ~(st.surface = "Ceiling" /\ st.action = "Jumping")

\* C29 witness: the random driver has just applied a case to a pet on the ceiling.
C29_Witness ==
    /\ mode = "Random" /\ last = "driver" /\ "applied" \in ev
    /\ st.surface = "Ceiling" /\ st.action = "Hiding"

\* The motion steps alone, run frame after frame.
FairStepSpec == StepSpec /\ WF_last(SystemRuns)

\* The pet travels along its surface: Move on the floor, Climb elsewhere.
Travelling == st.flight = "None" /\ SurfaceSpeed(st) > 0

\* C30: with no driver, a pet in Move on the floor or Climb on a wall or
\* the ceiling goes round the perimeter for ever: whichever surface is
\* named, the pet comes onto it again, at every frame time.
C30_Perimeter == \A s \in Surfaces : Travelling ~> (st.surface = s)

\* C31: whenever action = Landing the pet is on the Floor, not in flight,
\* on the floor line y = max_y, with landing_left > 0 (the motion step that
\* lets the hold run out changes the action to Move in the same call);
\* Landing is entered only by a motion step whose flight touched the floor,
\* never by a driver.
C31_Landing ==
    [][ /\ st'.action = "Landing"
           => /\ st'.surface = "Floor" /\ st'.flight = "None"
              /\ st'.y = MaxYNow /\ st'.landing_left > 0
        /\ (st.action # "Landing" /\ st'.action = "Landing")
           => /\ MotionTurn /\ "floor_landing" \in ev'
              /\ st.flight = "Parabola" \/ "takeoff" \in ev'
              /\ st'.landing_left = LANDING_HOLD - dt
      ]_vars

\* C31 witness: a motion step after the landing step has run on a pet that
\* is still landing.
C31_Witness ==
    /\ last = "motion" /\ st.action = "Landing" /\ "floor_landing" \notin ev
    /\ st.landing_left > 0 /\ st.landing_left < LANDING_HOLD - dt

\* C32: when the deterministic driver applies a case, the position it
\* assigns lies on the edge of the case's surface as the motion step
\* defines it and inside the motion step's rectangle; for a FloorPct jump
\* the pet stands at x = round(start_pct * max_x) with
\* target_x = round(target_pct * max_x) and dir pointing from start to
\* target.
C32_StartOnEdge ==
    [][ (mode = "Test" /\ "applied" \in ev')
        => /\ OnEdge(st') /\ InRect(st')
           /\ LET preset == TestCases[seq_i' + 1].preset
              IN  preset.kind = "FloorPct"
                  => /\ st'.x = Round(preset.start_pct * MaxXNow, 100)
                     /\ st'.target_x = Round(preset.target_pct * MaxXNow, 100)
                     /\ st'.dir = IF st'.target_x >= st'.x THEN 1 ELSE -1
      ]_vars

\* C33: every jump target the random driver chooses is inside the screen
\* rectangle: 0 <= target_x <= max_x, a wall target's height lies between
\* 10% and 90% of max_y, and range_i32(a, b) returns values in [a, b] only.
C33_TargetsInside ==
    [][ (mode = "Random" /\ "applied" \in ev' /\ st'.action = "Jumping")
        => /\ 0 <= st'.target_x /\ st'.target_x <= MaxXNow
           /\ st'.wall_target # <<>>
              => /\ st'.wall_target[2] >= (10 * MaxYNow) \div 100
                 /\ st'.wall_target[2] <= (90 * MaxYNow) \div 100
           /\ (st.surface # "Floor")
              => \E k \in Draws : /\ st'.target_x = range_i32(0, MaxXNow, k)
                                  /\ st'.target_x \in 0 .. MaxXNow
      ]_vars

====
